---- MODULE Spec2Model ----
(***************************************************************************)
(* Logos client data model: versioned entities (datamodel.py), the tag and *)
(* description registries and attribute sets (attributes.py) and the flow  *)
(* hierarchy (flow.py).                                                    *)
(*                                                                         *)
(* A Python object is a record with a cls field; a call is an operator     *)
(* that returns [obj |-> the object after the call, err |-> "ok" or the    *)
(* name of the exception that ended it].  Statements executed before a     *)
(* raise keep their effect, as in Python.                                  *)
(***************************************************************************)
EXTENDS Integers, Sequences, FiniteSets, TLC

VARIABLES clock,        \* the value time() * 1000 returns, read by now()
          ent,          \* the entity under test (any versioned class)
          Tags,         \* class attributes of the Tags singleton
          Descriptions, \* class attributes of the Descriptions singleton
          CurrentUser,  \* class attributes of the CurrentUser singleton
          Texts,        \* class attributes of the Texts singleton
          Client,       \* class attributes of the networking Client singleton
          heap,         \* the package dicts created so far, by address
          writer,       \* the thread applying a registry snapshot
          last          \* the last call made on ent and how it ended

vars == <<clock, ent, Tags, Descriptions, CurrentUser, Texts, Client, heap,
         writer, last>>

\* ---------------------------------------------------------------- bounds
MaxTime == 3
MaxVersion == 2
MaxTagId == 2
MaxTags == 2

\* The sends of a client whose queue nobody drains.
MaxQueue == 3
MaxSends == 101

\* The switches of a panel.
MaxSwitches == 5

\* ------------------------------------------------------ program constants
NO_PERMISSION == 0
READ == 1
WRITE == 2
ADMINISTRATE == 4

\* ------------------------------------------------------- python plumbing
\* Python's None where an object is expected.
NoneObj == [cls |-> "NoneType"]

Ok(o) == [obj |-> o, err |-> "ok"]

Raise(o, e) == [obj |-> o, err |-> e]

\* What a property returns: the kind of object, its content, and whether it
\* is the very container the entity holds (a write through it would then be a
\* write to the entity).
Returned(kind, val, aliased) ==
    [kind |-> kind, val |-> val, aliased |-> aliased]

\* A payload handed to on_data_received: a dict (f maps its keys to values),
\* None, or some other value (a list, a string).
DictOf(fields) == [kind |-> "dict", f |-> fields]

NonePayload == [kind |-> "None", f |-> <<>>]

OtherPayload == [kind |-> "other", f |-> <<>>]

\* The record fields without the keys in drop (a dict lacking those keys).
Without(fields, drop) == [k \in (DOMAIN fields) \ drop |-> fields[k]]

\* functiontools.now(): the clock in milliseconds.
now == clock

\* The alternative to check_switch: the quotient without the parity test.
check_switch_NoParity(panel, switch) == panel \div switch >= 1

\* check_switch: panel // switch % 2 == 1 (floor division, then parity).
check_switch(panel, switch) == (panel \div switch) % 2 = 1

\* check_data raises by evaluating the name LogosSerializationError, which
\* functiontools.py neither defines nor imports: the raise statement ends in
\* NameError.
UnboundLogosSerializationError == "NameError"

\* functiontools.check_data(data, keys): "ok" or the exception raised.
check_data(data, keys) ==
    IF data.kind # "dict" THEN UnboundLogosSerializationError
    ELSE IF ~(keys \subseteq DOMAIN data.f) THEN UnboundLogosSerializationError
    ELSE "ok"

\* ---------------------------------------------------------- datamodel.py
\* LogosUpdateable.__init__
LogosUpdateable_init(c) == [cls |-> c, last_update |-> 0, version |-> 0]

\* LogosUpdateable.is_ready (property)
is_ready(self) == self.last_update > 0

\* LogosUpdateable.on_data_received
LogosUpdateable_on_data_received(self, data, version) ==
    [self EXCEPT !.last_update = now, !.version = version]

\* Mutant: on_update that forgets to refresh last_update.
LogosUpdateable_on_update_NoRefresh(self) == self

\* LogosUpdateable.on_update
LogosUpdateable_on_update(self) == [self EXCEPT !.last_update = now]

\* Mutant: on_data_received that forgets to clear the dirty flag.
LogosLocallyCangeable_on_data_received_KeepsDirty(self, data, version) ==
    LogosUpdateable_on_data_received(self, data, version)

\* LogosLocallyCangeable.on_data_received
LogosLocallyCangeable_on_data_received(self, data, version) ==
    [LogosUpdateable_on_data_received(self, data, version)
        EXCEPT !.is_changed = FALSE]

\* Mutant: on_update that forgets to set the dirty flag.
LogosLocallyCangeable_on_update_NoDirty(self) ==
    LogosUpdateable_on_update(self)

\* LogosLocallyCangeable.on_update
LogosLocallyCangeable_on_update(self) ==
    [LogosUpdateable_on_update(self) EXCEPT !.is_changed = TRUE]

\* LogosUpdateableSingleton: the class attributes at import.
LogosUpdateableSingleton_init == [last_update |-> 0, version |-> 0]

\* LogosUpdateableSingleton.is_ready
Singleton_is_ready(cls) == cls.last_update > 0

\* LogosUpdateableSingleton.on_data_received
LogosUpdateableSingleton_on_data_received(cls, data, version) ==
    [cls EXCEPT !.last_update = now, !.version = version]

\* --------------------------------------------------------- networking.py
\* Client: the class attributes at import.  package_queue is Queue(), whose
\* maxsize 0 means no limit; it holds the addresses of the queued dicts.
Client_init ==
    [is_online |-> FALSE, operation_lists |-> <<>>, package_queue |-> <<>>,
     responses |-> <<>>]

\* get_package_template: the value of the dict or list it builds. bytes()
\* is written as the empty string.
get_package_template(is_response, is_micro) ==
    IF ~is_micro
    THEN IF ~is_response
         THEN [PackageType |-> "Logos", PackageVersion |-> <<0, 0, 1, "dev">>,
               PackageID |-> "", Operation |-> "", Content |-> ""]
         ELSE [PackageType |-> "Logos_response",
               PackageVersion |-> <<0, 0, 1, "dev">>, PackageID |-> "",
               PackageHash |-> "", QueryInterval |-> <<0, 100>>]
    ELSE IF ~is_response
         THEN <<"", "", "">>
         ELSE <<"", "", <<0, 100>>>>

\* The alternative to new_object: one template object, reused by every call.
new_object_Reused(h) == 1

\* The dict display of get_package_template builds a new object at every
\* call: its address in the heap h (the objects built so far) is a fresh one.
new_object(h) == Len(h) + 1

\* The heap with the object at address a set to value.
HeapSet(h, a, value) ==
    [i \in (DOMAIN h) \cup {a} |-> IF i = a THEN value ELSE h[i]]

\* Client.send: the template, three item assignments on it, and put() on the
\* queue, which is a Queue() without maxsize and so never blocks or fails.
Client_send(cls, h, package_id, operation, content) ==
    LET package == new_object(h)
        h0 == HeapSet(h, package, get_package_template(FALSE, FALSE))
        h1 == [h0 EXCEPT ![package].PackageID = package_id]
        h2 == [h1 EXCEPT ![package].Operation = operation]
        h3 == [h2 EXCEPT ![package].Content = content]
    IN  [cls |-> [cls EXCEPT !.package_queue = Append(@, package)],
         heap |-> h3, ret |-> Returned("None", <<>>, FALSE)]

\* The alternative to Client_send_and_check: a call that registers its
\* package id in the response table and returns without removing it.
Client_send_and_check_Registers(cls, h, package_id, operation, content) ==
    [cls |-> [cls EXCEPT !.responses =
                  [k \in (DOMAIN @) \cup {package_id} |-> "pending"]],
     heap |-> h, ret |-> Returned("None", <<>>, FALSE)]

\* Client.send_and_check: the body is its docstring alone; the call returns
\* None at once.
Client_send_and_check(cls, h, package_id, operation, content) ==
    [cls |-> cls, heap |-> h, ret |-> Returned("None", <<>>, FALSE)]

\* Client.send_and_wait: the body is its docstring alone.
Client_send_and_wait(cls, h, package_id, operation, content, operation_to_watch) ==
    [cls |-> cls, heap |-> h, ret |-> Returned("None", <<>>, FALSE)]

\* Client.start and Client.stop: the bodies are their docstrings alone.
Client_start(cls) == cls

Client_stop(cls) == cls

\* The writer thread of a registry snapshot, when no call is in progress.
writer_init == [pc |-> "idle"]

\* -------------------------------------------------------------- texts.py
\* Texts: the class attributes at import (content maps a language to its
\* texts by key).
Texts_init ==
    [last_update |-> 0, version |-> 0, content |-> <<>>,
     default_value |-> "", language |-> "en"]

\* Texts.get(key, language); the empty language stands for the session one.
Texts_get(cls, key, language) ==
    LET lang == IF language = "" THEN cls.language ELSE language
    IN  IF lang \in DOMAIN cls.content
        THEN IF key \in DOMAIN cls.content[lang]
             THEN cls.content[lang][key]
             ELSE cls.default_value
        ELSE IF "en" \in DOMAIN cls.content
        THEN IF key \in DOMAIN cls.content["en"]
             THEN cls.content["en"][key]
             ELSE cls.default_value
        ELSE cls.default_value

\* Texts.exists(key, language, strict); the empty language stands for the
\* session one.
Texts_exists(cls, key, language, strict) ==
    LET lang == IF language = "" THEN cls.language ELSE language
    IN  IF strict
        THEN IF lang \in DOMAIN cls.content
             THEN key \in DOMAIN cls.content[lang]
             ELSE FALSE
        ELSE IF lang \in DOMAIN cls.content
             THEN key \in DOMAIN cls.content[lang]
             ELSE IF "en" \in DOMAIN cls.content
             THEN key \in DOMAIN cls.content["en"]
             ELSE FALSE

\* Texts.set_default_value(new_value)
Texts_set_default_value(cls, new_value) ==
    [cls EXCEPT !.default_value = new_value]

\* Texts.set_language(new_value)
Texts_set_language(cls, new_value) == [cls EXCEPT !.language = new_value]

\* Texts.on_data_received
Texts_on_data_received(cls, data, version) ==
    [LogosUpdateableSingleton_on_data_received(cls, data, version)
        EXCEPT !.content = data]

\* --------------------------------------------------------- attributes.py
\* Python's `x in list`.
InList(x, list) == \E i \in DOMAIN list : list[i] = x

\* dict[key] = value
DictSet(d, key, value) == [k \in (DOMAIN d) \cup {key} |->
                             IF k = key THEN value ELSE d[k]]

\* Tags: the class attributes at import.
Tags_init == [last_update |-> 0, version |-> 0, tag_ids |-> <<>>]

\* Tags.available
Tags_available(cls, tag_id) == InList(tag_id, cls.tag_ids)

\* Tags.get: the text stored under '#<tag_id>'.
Tags_get(cls, tag_id) ==
    IF ~Tags_available(cls, tag_id)
    THEN [val |-> "", err |-> "LogosPermissionError"]
    ELSE [val |-> Texts_get(Texts, "#" \o ToString(tag_id), ""), err |-> "ok"]

\* Tags.is_ready: all([super().is_ready(), Texts.is_ready()])
Tags_is_ready(cls) == Singleton_is_ready(cls) /\ Singleton_is_ready(Texts)

\* Tags.on_data_received
Tags_on_data_received(cls, data, version) ==
    [LogosUpdateableSingleton_on_data_received(cls, data, version)
        EXCEPT !.tag_ids = data]

\* Descriptions: the class attributes at import.
Descriptions_init ==
    [last_update |-> 0, version |-> 0, description_structure |-> <<>>]

\* Descriptions.available_key
Descriptions_available_key(cls, key) ==
    key \in DOMAIN cls.description_structure

\* Descriptions.available_value: [val |-> the result, err |-> "ok" or raised]
Descriptions_available_value(cls, key, value) ==
    IF ~Descriptions_available_key(cls, key)
    THEN [val |-> FALSE, err |-> "LogosPermissionError"]
    ELSE [val |-> InList(value, cls.description_structure[key]),
          err |-> "ok"]

\* Descriptions.get: the texts of key and value, both looked up as tags.
Descriptions_get(cls, key, value) ==
    LET av == Descriptions_available_value(cls, key, value)
        d  == Tags_get(Tags, key)
        v  == Tags_get(Tags, value)
        no == [description |-> "", value |-> ""]
    IN  IF av.err # "ok" THEN [val |-> no, err |-> av.err]
        ELSE IF ~av.val THEN [val |-> no, err |-> "LogosPermissionError"]
        ELSE IF d.err # "ok" THEN [val |-> no, err |-> d.err]
        ELSE IF v.err # "ok" THEN [val |-> no, err |-> v.err]
        ELSE [val |-> [description |-> d.val, value |-> v.val], err |-> "ok"]

\* Mutant: a readiness that looks at the registry's own snapshot only.
Descriptions_is_ready_IgnoresTags(cls) == Singleton_is_ready(cls)

\* Descriptions.is_ready: all([super().is_ready(), Tags.is_ready()])
Descriptions_is_ready(cls) == Singleton_is_ready(cls) /\ Tags_is_ready(Tags)

\* Descriptions.on_data_received
Descriptions_on_data_received(cls, data, version) ==
    [LogosUpdateableSingleton_on_data_received(cls, data, version)
        EXCEPT !.description_structure = data]

\* LogosAttributes.on_data_received
LogosAttributes_on_data_received(self, data, version) ==
    LET s1 == LogosUpdateable_on_data_received(self, data, version)
        e  == check_data(data, {"tags", "descriptions"})
    IN  IF e # "ok" THEN Raise(s1, e)
        ELSE Ok([s1 EXCEPT !.tags = data.f.tags,
                           !.descriptions = data.f.descriptions])

\* LogosAttributes.__init__(data, version = 0)
LogosAttributes_init(data, version) ==
    LET s0 == [cls |-> "LogosAttributes", last_update |-> 0, version |-> 0,
               tags |-> <<>>, descriptions |-> <<>>]
    IN  IF data.kind # "None"
        THEN LogosAttributes_on_data_received(s0, data, version)
        ELSE Ok(s0)

\* LogosAttributes.descriptions (property): the copy is computed and dropped,
\* the body ends without a return statement and the call yields None.
LogosAttributes_descriptions(self) == Returned("None", <<>>, FALSE)

\* LogosAttributes.tags (property): a new list with the same entries.
LogosAttributes_tags(self) == Returned("list", self.tags, FALSE)

\* LogosEditableAttributes.on_data_received
LogosEditableAttributes_on_data_received(self, data, version) ==
    LET s1 == LogosLocallyCangeable_on_data_received(self, data, version)
        e  == check_data(data, {"tags", "descriptions"})
    IN  IF e # "ok" THEN Raise(s1, e)
        ELSE Ok([s1 EXCEPT !.tags = data.f.tags,
                           !.descriptions = data.f.descriptions])

\* LogosEditableAttributes.__init__(data, version = 0)
LogosEditableAttributes_init(data, version) ==
    LET s0 == [cls |-> "LogosEditableAttributes", last_update |-> 0,
               version |-> 0, is_changed |-> FALSE,
               tags |-> <<>>, descriptions |-> <<>>]
    IN  IF data.kind # "None"
        THEN LogosEditableAttributes_on_data_received(s0, data, version)
        ELSE Ok(s0)

\* LogosEditableAttributes.descriptions (property): the copy is computed and
\* dropped, the body ends without a return statement and the call yields None.
LogosEditableAttributes_descriptions(self) == Returned("None", <<>>, FALSE)

\* LogosEditableAttributes.tags (property): a new list with the same entries.
LogosEditableAttributes_tags(self) == Returned("list", self.tags, FALSE)

\* super().om_update(): LogosLocallyCangeable and its bases define on_update
\* and no om_update, so the attribute lookup on the super object raises.
super_om_update(self) == Raise(self, "AttributeError")

\* LogosEditableAttributes.add_tag
add_tag(self, new_tag) ==
    IF InList(new_tag, self.tags) THEN Raise(self, "ValueError")
    ELSE IF ~Tags_available(Tags, new_tag)
    THEN Raise(self, "LogosPermissionError")
    ELSE super_om_update([self EXCEPT !.tags = Append(self.tags, new_tag)])

\* The loop of change_tag: the python index (from 0) of the last entry equal
\* to original_tag, -1 when there is none.
change_tag_pos(tags, original_tag) ==
    LET hits == {i \in DOMAIN tags : tags[i] = original_tag}
    IN  IF hits = {} THEN -1
        ELSE (CHOOSE i \in hits : \A j \in hits : j <= i) - 1

\* The python chained comparison `pos < 0 in tags`: pos < 0 and 0 in tags.
change_tag_not_found(pos, tags) == pos < 0 /\ InList(0, tags)

\* list[pos] = value, for a python index pos >= -1: -1 is the last entry.
ListSet(list, pos, value) ==
    IF pos >= 0 THEN [list EXCEPT ![pos + 1] = value]
    ELSE [list EXCEPT ![Len(list)] = value]

\* LogosEditableAttributes.change_tag
change_tag(self, original_tag, new_tag) ==
    LET pos == change_tag_pos(self.tags, original_tag)
    IN  IF change_tag_not_found(pos, self.tags)
        THEN Raise(self, "ValueError")
        ELSE IF ~Tags_available(Tags, new_tag)
        THEN Raise(self, "LogosPermissionError")
        ELSE IF pos < 0 /\ Len(self.tags) = 0
        THEN Raise(self, "IndexError")
        ELSE super_om_update(
                 [self EXCEPT !.tags = ListSet(self.tags, pos, new_tag)])

\* LogosEditableAttributes.delete_tag
delete_tag(self, tag_id) ==
    IF ~InList(tag_id, self.tags) THEN Raise(self, "ValueError")
    ELSE super_om_update(
             [self EXCEPT !.tags = SelectSeq(self.tags,
                                             LAMBDA t : t # tag_id)])

\* LogosEditableAttributes.add_description
add_description(self, new_key, new_value) ==
    IF new_key \in DOMAIN self.descriptions THEN Raise(self, "ValueError")
    ELSE IF ~Descriptions_available_key(Descriptions, new_key)
    THEN Raise(self, "LogosPermissionError")
    ELSE LET av == Descriptions_available_value(Descriptions, new_key,
                                                new_value)
         IN  IF av.err # "ok" THEN Raise(self, av.err)
             ELSE IF ~av.val THEN Raise(self, "LogosPermissionError")
             ELSE super_om_update(
                      [self EXCEPT !.descriptions =
                           DictSet(self.descriptions, new_key, new_value)])

\* LogosEditableAttributes.change_description
change_description(self, key, new_value) ==
    IF key \notin DOMAIN self.descriptions THEN Raise(self, "ValueError")
    ELSE IF ~Descriptions_available_key(Descriptions, key)
    THEN Raise(self, "LogosPermissionError")
    ELSE LET av == Descriptions_available_value(Descriptions, key, new_value)
         IN  IF av.err # "ok" THEN Raise(self, av.err)
             ELSE IF ~av.val THEN Raise(self, "LogosPermissionError")
             ELSE super_om_update(
                      [self EXCEPT !.descriptions =
                           DictSet(self.descriptions, key, new_value)])

\* LogosEditableAttributes.delete_description
delete_description(self, key) ==
    IF key \notin DOMAIN self.descriptions THEN Raise(self, "ValueError")
    ELSE super_om_update(
             [self EXCEPT !.descriptions =
                  [k \in (DOMAIN self.descriptions) \ {key} |->
                       self.descriptions[k]]])

\* --------------------------------------------------------------- flow.py
\* LogosFlowObject.__init__ without data, for class c.
LogosFlowObject_init(c) ==
    [cls |-> c, last_update |-> 0, version |-> 0, id |-> "None",
     name |-> "None", access_mode |-> NO_PERMISSION, attributes |-> NoneObj]

\* LogosFlowObject.on_data_received
LogosFlowObject_on_data_received(self, data, version) ==
    LET s1 == LogosUpdateable_on_data_received(self, data, version)
        e  == check_data(data, {"id", "name", "access_mode", "attributes"})
    IN  IF e # "ok" THEN Raise(s1, e)
        ELSE LET s2 == [s1 EXCEPT !.id = data.f.id, !.name = data.f.name,
                                  !.access_mode = data.f.access_mode]
                 a  == LogosAttributes_init(data.f.attributes, 0)
             IN  IF a.err # "ok" THEN Raise(s2, a.err)
                 ELSE Ok([s2 EXCEPT !.attributes = a.obj])

\* LogosLog.__init__ without data
LogosLog_init ==
    [cls |-> "LogosLog", last_update |-> 0, version |-> 0, id |-> "None",
     name |-> "None", access_mode |-> NO_PERMISSION, attributes |-> NoneObj,
     entries |-> NoneObj]

\* LogosLog.on_data_received
LogosLog_on_data_received(self, data, version) ==
    LET r == LogosFlowObject_on_data_received(self, data, version)
        e == check_data(data, {"id", "name", "access_mode", "attributes",
                               "entries"})
    IN  IF r.err # "ok" THEN r
        ELSE IF e # "ok" THEN Raise(r.obj, e)
        ELSE Ok([r.obj EXCEPT !.entries = NoneObj])

\* The name Log in LogosLogContainer.__init__: flow.py defines LogosLog and
\* no Log, so evaluating Log(value) raises.
UnboundLog == "NameError"

\* LogosLogContainer.__init__(logs): items maps each key to its log.
LogosLogContainer_init(logs) ==
    LET c0 == [cls |-> "LogosLogContainer", in_init |-> TRUE, items |-> <<>>]
    IN  IF logs.kind = "None" THEN Ok([c0 EXCEPT !.in_init = FALSE])
        ELSE IF logs.kind # "dict" THEN Raise(c0, "AttributeError")
        ELSE IF DOMAIN logs.f # {} THEN Raise(c0, UnboundLog)
        ELSE Ok([c0 EXCEPT !.in_init = FALSE])

\* LogosLogContainer.__setitem__
LogosLogContainer_setitem(self, key, value) ==
    IF ~self.in_init THEN Raise(self, "LogosPermissionError")
    ELSE Ok([self EXCEPT !.items = DictSet(self.items, key, value)])

\* The writes LogosLogContainer inherits from dict without overriding them:
\* dict.update and dict.setdefault store without calling __setitem__.
dict_update(self, key, value) ==
    Ok([self EXCEPT !.items = DictSet(self.items, key, value)])

dict_setdefault(self, key, value) ==
    IF key \in DOMAIN self.items THEN Ok(self)
    ELSE Ok([self EXCEPT !.items = DictSet(self.items, key, value)])

\* dict.__delitem__ and dict.pop(key): KeyError when the key is not held.
dict_delitem(self, key) ==
    IF key \notin DOMAIN self.items THEN Raise(self, "KeyError")
    ELSE Ok([self EXCEPT !.items =
                 [k \in (DOMAIN self.items) \ {key} |-> self.items[k]]])

dict_pop(self, key) == dict_delitem(self, key)

dict_clear(self) == Ok([self EXCEPT !.items = <<>>])

\* LogosChannel.__init__ without data
LogosChannel_init ==
    [cls |-> "LogosChannel", last_update |-> 0, version |-> 0, id |-> "None",
     name |-> "None", access_mode |-> NO_PERMISSION, attributes |-> NoneObj,
     logs |-> LogosLogContainer_init(NonePayload).obj]

\* LogosChannel.on_data_received
LogosChannel_on_data_received(self, data, version) ==
    LET r == LogosFlowObject_on_data_received(self, data, version)
        e == check_data(data, {"id", "name", "access_mode", "attributes",
                               "logs"})
    IN  IF r.err # "ok" THEN r
        ELSE IF e # "ok" THEN Raise(r.obj, e)
        ELSE LET c == LogosLogContainer_init(data.f.logs)
             IN  IF c.err # "ok" THEN Raise(r.obj, c.err)
                 ELSE Ok([r.obj EXCEPT !.logs = c.obj])

\* LogosLogEntry.__init__ without data
LogosLogEntry_init ==
    [cls |-> "LogosLogEntry", last_update |-> 0, version |-> 0,
     is_changed |-> FALSE, id_time |-> 0, id_user |-> "",
     access_mode |-> NO_PERMISSION, content |-> "",
     attributes |-> LogosEditableAttributes_init(NonePayload, 0).obj,
     attachments |-> NoneObj, is_finished |-> FALSE]

\* Mutant: a setter that takes an empty content for nothing to send and
\* clears the dirty flag.
LogosLogEntry_content_set_ClearsOnEmpty(self, new_contant) ==
    Ok([LogosLocallyCangeable_on_update([self EXCEPT !.content = new_contant])
           EXCEPT !.is_changed = (new_contant # "")])

\* LogosLogEntry.content (setter)
LogosLogEntry_content_set(self, new_contant) ==
    Ok(LogosLocallyCangeable_on_update([self EXCEPT !.content = new_contant]))

\* super().is_ready(): is_ready is a property, so super().is_ready is its
\* bool value and the call applies a bool, which is not callable.
CallBool(b) == "TypeError"

\* CurrentUser: the class attributes at import.
CurrentUser_init == [last_update |-> 0, version |-> 0, id |-> "None"]

\* CurrentUser.get_id
CurrentUser_get_id == CurrentUser.id

\* The name self in the classmethod CurrentUser.on_data_received, whose
\* parameter is cls: the first assignment through it raises.
UnboundSelf == "NameError"

\* CurrentUser.on_data_received: the six assignments are never reached.
CurrentUser_on_data_received(cls, data, version) ==
    LET s1 == LogosUpdateableSingleton_on_data_received(cls, data, version)
        e  == check_data(data, {"id", "display_name", "attributes", "sig_key",
                                "server_key", "terminal_settings"})
    IN  IF e # "ok" THEN Raise(s1, e)
        ELSE Raise(s1, UnboundSelf)

\* LogosLogEntry.id (property): '{}-{}'.format(id_time, id_user)
LogosLogEntry_id(self) == ToString(self.id_time) \o "-" \o self.id_user

\* LogosLogEntry.id_tine (property)
LogosLogEntry_id_tine(self) == self.id_time

\* LogosLogEntry.id_user (property): returns the field __id_time.
LogosLogEntry_id_user(self) == self.id_time

\* LogosLogEntry.is_changed (property): the list [super().is_changed,
\* self.attributes.is_changed, self.attachments.is_changed] is built before
\* any() sees it; reading is_changed of None ends in AttributeError.
LogosLogEntry_is_changed(self) ==
    IF self.attributes = NoneObj \/ self.attachments = NoneObj
    THEN [val |-> NoneObj, err |-> "AttributeError"]
    ELSE [val |-> (self.is_changed \/ self.attributes.is_changed
                     \/ self.attachments.is_changed),
          err |-> "ok"]

\* LogosLogEntry.to_json_dict: the dict display reads id_tine, id_user and
\* access_mode, then calls to_json_dict() on attributes and on attachments;
\* the call on None ends in AttributeError.
LogosLogEntry_to_json_dict(self) ==
    IF self.attributes = NoneObj \/ self.attachments = NoneObj
    THEN [val |-> NoneObj, err |-> "AttributeError"]
    ELSE [val |-> DictOf([id_time |-> LogosLogEntry_id_tine(self),
                          id_user |-> LogosLogEntry_id_user(self),
                          access_mode |-> self.access_mode,
                          attributes |->
                              DictOf([tags |-> self.attributes.tags,
                                      descriptions |->
                                          self.attributes.descriptions]),
                          attachments |-> self.attachments,
                          is_finished |-> self.is_finished]),
          err |-> "ok"]

\* LogosLogEntry.on_create
LogosLogEntry_on_create(self) ==
    LET c == CallBool(is_ready(self))
    IN  IF c \notin {"True", "False"} THEN Raise(self, c)
        ELSE IF c = "True" THEN Raise(self, "LogosStatusError")
        ELSE Ok(LogosLocallyCangeable_on_update(
                 [self EXCEPT !.id_time = now,
                              !.id_user = CurrentUser_get_id,
                              !.access_mode = READ + WRITE]))

\* LogosLogEntry.on_data_received
LogosLogEntry_on_data_received(self, data, version) ==
    LET s1 == LogosLocallyCangeable_on_data_received(self, data, version)
        e  == check_data(data, {"id_time", "id_user", "access_mode",
                                "attributes", "attachments", "is_finished"})
    IN  IF e # "ok" THEN Raise(s1, e)
        ELSE Ok([s1 EXCEPT !.id_time = data.f.id_time,
                           !.id_user = data.f.id_user,
                           !.access_mode = data.f.access_mode,
                           !.attributes = NoneObj,
                           !.attachments = NoneObj,
                           !.is_finished = data.f.is_finished])

\* on_data_received as python dispatches it on the object's class.
on_data_received(self, data, version) ==
    CASE self.cls = "LogosFlowObject" ->
             LogosFlowObject_on_data_received(self, data, version)
      [] self.cls = "LogosLog" ->
             LogosLog_on_data_received(self, data, version)
      [] self.cls = "LogosChannel" ->
             LogosChannel_on_data_received(self, data, version)
      [] self.cls = "LogosLogEntry" ->
             LogosLogEntry_on_data_received(self, data, version)
      [] self.cls = "LogosAttributes" ->
             LogosAttributes_on_data_received(self, data, version)
      [] self.cls = "LogosEditableAttributes" ->
             LogosEditableAttributes_on_data_received(self, data, version)

\* ------------------------------------------------------------ the inputs
Versions == 0 .. MaxVersion

TagIds == 0 .. MaxTagId

\* The lists of at most n tag ids.
TagLists(n) == UNION {[1 .. k -> TagIds] : k \in 0 .. n}

\* The dicts from description keys to values (both are tag ids above 0).
DescDicts == UNION {[D -> 1 .. MaxTagId] : D \in SUBSET {1}}

\* A dict with the fields of rec, the dicts lacking one of its keys, and the
\* payloads that are no dict.
WithInvalid(rec) ==
    {DictOf(rec)} \cup {DictOf(Without(rec, {k})) : k \in DOMAIN rec}
        \cup {NonePayload, OtherPayload}

\* What a server may send for an attribute set.
AttributePayloads ==
    {DictOf([tags |-> t, descriptions |-> d]) :
         t \in TagLists(1), d \in DescDicts}
    \cup WithInvalid([tags |-> <<>>, descriptions |-> <<>>])

\* The attributes nested in a flow object's payload.
NestedAttributePayloads ==
    {DictOf([tags |-> <<1>>, descriptions |-> <<>>]),
     DictOf([tags |-> <<>>]), NonePayload}

\* The logs nested in a channel's payload: no dict, an empty dict, one log.
LogsPayloads ==
    {NonePayload, DictOf(<<>>),
     DictOf([L1 |-> DictOf([id |-> "L1", name |-> "l", access_mode |-> READ,
                            attributes |-> NonePayload,
                            entries |-> OtherPayload])])}

FlowObjectPayloads ==
    {DictOf([id |-> "F1", name |-> "n", access_mode |-> READ,
             attributes |-> a]) : a \in NestedAttributePayloads}
    \cup WithInvalid([id |-> "F2", name |-> "m",
                      access_mode |-> READ + WRITE,
                      attributes |-> NonePayload])

LogPayloads ==
    {DictOf([id |-> "F1", name |-> "n", access_mode |-> READ,
             attributes |-> a, entries |-> OtherPayload]) :
         a \in NestedAttributePayloads}
    \cup WithInvalid([id |-> "F2", name |-> "m",
                      access_mode |-> READ + WRITE,
                      attributes |-> NonePayload, entries |-> OtherPayload])

ChannelPayloads ==
    {DictOf([id |-> "F1", name |-> "n", access_mode |-> READ,
             attributes |-> a, logs |-> l]) :
         a \in NestedAttributePayloads, l \in LogsPayloads}
    \cup WithInvalid([id |-> "F2", name |-> "m",
                      access_mode |-> READ + WRITE,
                      attributes |-> NonePayload, logs |-> NonePayload])

Users == {"U1", "U2"}

Contents == {"", "a", "b"}

LogEntryPayloads ==
    {DictOf([id_time |-> 1, id_user |-> u, access_mode |-> READ,
             content |-> "s", attributes |-> NonePayload,
             attachments |-> NonePayload, is_finished |-> fin]) :
         u \in Users, fin \in BOOLEAN}
    \cup WithInvalid([id_time |-> 2, id_user |-> "U1",
                      access_mode |-> READ + WRITE,
                      content |-> "s", attributes |-> NonePayload,
                      attachments |-> NonePayload, is_finished |-> FALSE])

\* The payloads tried on an object of class c.
PayloadsFor(c) ==
    CASE c = "LogosFlowObject" -> FlowObjectPayloads
      [] c = "LogosLog" -> LogPayloads
      [] c = "LogosChannel" -> ChannelPayloads
      [] c = "LogosLogEntry" -> LogEntryPayloads
      [] c = "LogosAttributes" -> AttributePayloads
      [] c = "LogosEditableAttributes" -> AttributePayloads

\* The keys on_data_received of class c requires of its payload.
RequiredKeys(c) ==
    CASE c = "LogosFlowObject" -> {"id", "name", "access_mode", "attributes"}
      [] c = "LogosLog" ->
             {"id", "name", "access_mode", "attributes", "entries"}
      [] c = "LogosChannel" ->
             {"id", "name", "access_mode", "attributes", "logs"}
      [] c = "LogosLogEntry" ->
             {"id_time", "id_user", "access_mode", "attributes",
              "attachments", "is_finished"}
      [] c = "LogosAttributes" -> {"tags", "descriptions"}
      [] c = "LogosEditableAttributes" -> {"tags", "descriptions"}

\* ------------------------------------------------- the entity under test
\* The objects a client constructs without data.
FreshEntities ==
    {LogosFlowObject_init("LogosFlowObject"), LogosLog_init,
     LogosChannel_init, LogosLogEntry_init,
     LogosAttributes_init(NonePayload, 0).obj,
     LogosEditableAttributes_init(NonePayload, 0).obj}

Init ==
    /\ clock = 1
    /\ ent \in FreshEntities
    /\ Tags = Tags_init
    /\ Descriptions = Descriptions_init
    /\ CurrentUser = CurrentUser_init
    /\ Texts = Texts_init
    /\ Client = Client_init
    /\ heap = <<>>
    /\ writer = writer_init
    /\ last = [op |-> "init", err |-> "ok"]

\* A millisecond passes.
Tick ==
    /\ clock < MaxTime
    /\ clock' = clock + 1
    /\ UNCHANGED <<ent, Tags, Descriptions, CurrentUser, Texts,
                   Client, heap, writer, last>>

\* ent.on_data_received(data, version)
OnDataReceived(data, version) ==
    LET r == on_data_received(ent, data, version)
    IN  /\ ent' = r.obj
        /\ last' = [op |-> "on_data_received", err |-> r.err]
        /\ UNCHANGED <<clock, Tags, Descriptions, CurrentUser, Texts,
                       Client, heap, writer>>

\* ent.content = new_contant
SetContent(new_contant) ==
    /\ ent.cls = "LogosLogEntry"
    /\ LET r == LogosLogEntry_content_set(ent, new_contant)
       IN  /\ ent' = r.obj
           /\ last' = [op |-> "content", err |-> r.err]
    /\ UNCHANGED <<clock, Tags, Descriptions, CurrentUser, Texts,
                   Client, heap, writer>>

\* ent.on_create()
OnCreate ==
    /\ ent.cls = "LogosLogEntry"
    /\ LET r == LogosLogEntry_on_create(ent)
       IN  /\ ent' = r.obj
           /\ last' = [op |-> "on_create", err |-> r.err]
    /\ UNCHANGED <<clock, Tags, Descriptions, CurrentUser, Texts,
                   Client, heap, writer>>

Next ==
    \/ Tick
    \/ \E data \in PayloadsFor(ent.cls), version \in Versions :
           OnDataReceived(data, version)
    \/ \E c \in Contents : SetContent(c)
    \/ OnCreate

Spec == Init /\ [][Next]_vars

\* ------------------------------------- attribute sets and their readers
\* The classes that hold tags and descriptions.
AttributeSets == {"LogosAttributes", "LogosEditableAttributes"}

\* ent.tags
GetTags ==
    /\ ent.cls \in AttributeSets
    /\ LET r == IF ent.cls = "LogosAttributes"
                THEN LogosAttributes_tags(ent)
                ELSE LogosEditableAttributes_tags(ent)
       IN  last' = [op |-> "tags", err |-> "ok", ret |-> r]
    /\ UNCHANGED <<clock, ent, Tags, Descriptions, CurrentUser, Texts,
                   Client, heap, writer>>

\* ent.descriptions
GetDescriptions ==
    /\ ent.cls \in AttributeSets
    /\ LET r == IF ent.cls = "LogosAttributes"
                THEN LogosAttributes_descriptions(ent)
                ELSE LogosEditableAttributes_descriptions(ent)
       IN  last' = [op |-> "descriptions", err |-> "ok", ret |-> r]
    /\ UNCHANGED <<clock, ent, Tags, Descriptions, CurrentUser, Texts,
                   Client, heap, writer>>

InitAccess ==
    /\ clock = 1
    /\ ent \in {LogosAttributes_init(NonePayload, 0).obj,
                LogosEditableAttributes_init(NonePayload, 0).obj}
    /\ Tags = Tags_init
    /\ Descriptions = Descriptions_init
    /\ CurrentUser = CurrentUser_init
    /\ Texts = Texts_init
    /\ Client = Client_init
    /\ heap = <<>>
    /\ writer = writer_init
    /\ last = [op |-> "init", err |-> "ok"]

\* An attribute set of either class, its snapshots and the reads of its tags
\* and descriptions.
NextAccess ==
    \/ \E data \in AttributePayloads, version \in Versions :
           OnDataReceived(data, version)
    \/ GetTags
    \/ GetDescriptions

SpecAccess == InitAccess /\ [][NextAccess]_vars

\* ------------------------------------------ a log entry and its creator
\* What a server may send for the current user.
CurrentUserPayloads ==
    {DictOf([id |-> u, display_name |-> "d", attributes |-> NonePayload,
             sig_key |-> "s", server_key |-> "k",
             terminal_settings |-> "t"]) : u \in Users}
    \cup {DictOf([id |-> "U1"]), NonePayload}

InitEntry ==
    /\ clock = 1
    /\ ent = LogosLogEntry_init
    /\ Tags = Tags_init
    /\ Descriptions = Descriptions_init
    /\ CurrentUser = CurrentUser_init
    /\ Texts = Texts_init
    /\ Client = Client_init
    /\ heap = <<>>
    /\ writer = writer_init
    /\ last = [op |-> "init", err |-> "ok"]

\* CurrentUser.on_data_received(data, version)
CurrentUserOnDataReceived(data, version) ==
    /\ CurrentUser' = CurrentUser_on_data_received(CurrentUser, data,
                                                   version).obj
    /\ UNCHANGED <<clock, ent, Tags, Descriptions, Texts,
                   Client, heap, writer, last>>

\* ent.attributes.add_tag(new_tag): an edit of the entry's attribute set,
\* which is None once a snapshot was applied.
EntryAddTag(new_tag) ==
    /\ ent.cls = "LogosLogEntry"
    /\ IF ent.attributes = NoneObj
       THEN /\ ent' = ent
            /\ last' = [op |-> "attributes.add_tag", err |-> "AttributeError"]
       ELSE LET r == add_tag(ent.attributes, new_tag)
            IN  /\ ent' = [ent EXCEPT !.attributes = r.obj]
                /\ last' = [op |-> "attributes.add_tag", err |-> r.err]
    /\ UNCHANGED <<clock, Tags, Descriptions, CurrentUser, Texts,
                   Client, heap, writer>>

NextEntry ==
    \/ Tick
    \/ \E data \in CurrentUserPayloads : CurrentUserOnDataReceived(data, 1)
    \/ \E data \in LogEntryPayloads, version \in Versions :
           OnDataReceived(data, version)
    \/ \E c \in Contents : SetContent(c)
    \/ OnCreate
    \/ \E t \in TagIds : EntryAddTag(t)

SpecEntry == InitEntry /\ [][NextEntry]_vars

\* ------------------------------------------- a channel and its container
InitChannel ==
    /\ clock = 1
    /\ ent = LogosChannel_init
    /\ Tags = Tags_init
    /\ Descriptions = Descriptions_init
    /\ CurrentUser = CurrentUser_init
    /\ Texts = Texts_init
    /\ Client = Client_init
    /\ heap = <<>>
    /\ writer = writer_init
    /\ last = [op |-> "init", err |-> "ok"]

\* The keys callers write to channel.logs.
LogKeys == {"L1", "L2"}

\* A call on the container ent.logs whose outcome is r.
CalledOnLogs(op, r) ==
    /\ ent' = [ent EXCEPT !.logs = r.obj]
    /\ last' = [op |-> op, err |-> r.err]
    /\ UNCHANGED <<clock, Tags, Descriptions, CurrentUser, Texts,
                   Client, heap, writer>>

\* channel.logs[key] = LogosLog()
LogsSetItem(key) ==
    CalledOnLogs("logs.__setitem__",
                 LogosLogContainer_setitem(ent.logs, key, LogosLog_init))

\* channel.logs.update({key: LogosLog()})
LogsUpdate(key) ==
    CalledOnLogs("logs.update", dict_update(ent.logs, key, LogosLog_init))

\* channel.logs.setdefault(key, LogosLog())
LogsSetDefault(key) ==
    CalledOnLogs("logs.setdefault",
                 dict_setdefault(ent.logs, key, LogosLog_init))

\* del channel.logs[key]
LogsDelItem(key) ==
    CalledOnLogs("logs.__delitem__", dict_delitem(ent.logs, key))

\* channel.logs.pop(key)
LogsPop(key) == CalledOnLogs("logs.pop", dict_pop(ent.logs, key))

\* channel.logs.clear()
LogsClear == CalledOnLogs("logs.clear", dict_clear(ent.logs))

\* The calls on one channel and its container within one millisecond.
NextChannel ==
    \/ \E data \in ChannelPayloads, version \in Versions :
           OnDataReceived(data, version)
    \/ \E k \in LogKeys : LogsSetItem(k)
    \/ \E k \in LogKeys : LogsUpdate(k)
    \/ \E k \in LogKeys : LogsSetDefault(k)
    \/ \E k \in LogKeys : LogsDelItem(k)
    \/ \E k \in LogKeys : LogsPop(k)
    \/ LogsClear

SpecChannel == InitChannel /\ [][NextChannel]_vars

\* --------------------------------------------- an editable attribute set
\* What a server may send for the Tags registry: the ids 1..n, or all ids.
RegistryTagLists ==
    {[i \in 1 .. n |-> i] : n \in 0 .. MaxTagId}
        \cup {[i \in 1 .. MaxTagId + 1 |-> i - 1]}

\* What a server may send for the Descriptions registry: key 1 with the legal
\* values 1..n.
RegistryDescriptionStructures ==
    {<<>>} \cup {[k \in {1} |-> [i \in 1 .. n |-> i]] : n \in 1 .. MaxTagId}

InitAttr ==
    /\ clock = 1
    /\ ent = LogosEditableAttributes_init(NonePayload, 0).obj
    /\ Tags = Tags_init
    /\ Descriptions = Descriptions_init
    /\ CurrentUser = CurrentUser_init
    /\ Texts = Texts_init
    /\ Client = Client_init
    /\ heap = <<>>
    /\ writer = writer_init
    /\ last = [op |-> "init", err |-> "ok"]

\* Tags.on_data_received(data, version)
TagsOnDataReceived(data, version) ==
    /\ Tags' = Tags_on_data_received(Tags, data, version)
    /\ UNCHANGED <<clock, ent, Descriptions, CurrentUser, Texts,
                   Client, heap, writer, last>>

\* Descriptions.on_data_received(data, version)
DescriptionsOnDataReceived(data, version) ==
    /\ Descriptions' = Descriptions_on_data_received(Descriptions, data,
                                                     version)
    /\ UNCHANGED <<clock, ent, Tags, CurrentUser, Texts,
                   Client, heap, writer, last>>

\* A call on ent whose outcome is r: the object after it and how it ended.
Called(op, r) == ent' = r.obj /\ last' = [op |-> op, err |-> r.err]

\* ent.add_tag(new_tag); the list is capped at MaxTags entries.
AddTag(new_tag) ==
    /\ Len(ent.tags) < MaxTags
    /\ Called("add_tag", add_tag(ent, new_tag))
    /\ UNCHANGED <<clock, Tags, Descriptions, CurrentUser, Texts,
                   Client, heap, writer>>

\* ent.change_tag(original_tag, new_tag)
ChangeTag(original_tag, new_tag) ==
    /\ Called("change_tag", change_tag(ent, original_tag, new_tag))
    /\ UNCHANGED <<clock, Tags, Descriptions, CurrentUser, Texts,
                   Client, heap, writer>>

\* ent.delete_tag(tag_id)
DeleteTag(tag_id) ==
    /\ Called("delete_tag", delete_tag(ent, tag_id))
    /\ UNCHANGED <<clock, Tags, Descriptions, CurrentUser, Texts,
                   Client, heap, writer>>

\* ent.add_description(new_key, new_value)
AddDescription(new_key, new_value) ==
    /\ Called("add_description", add_description(ent, new_key, new_value))
    /\ UNCHANGED <<clock, Tags, Descriptions, CurrentUser, Texts,
                   Client, heap, writer>>

\* ent.change_description(key, new_value)
ChangeDescription(key, new_value) ==
    /\ Called("change_description",
              change_description(ent, key, new_value))
    /\ UNCHANGED <<clock, Tags, Descriptions, CurrentUser, Texts,
                   Client, heap, writer>>

\* ent.delete_description(key)
DeleteDescription(key) ==
    /\ Called("delete_description", delete_description(ent, key))
    /\ UNCHANGED <<clock, Tags, Descriptions, CurrentUser, Texts,
                   Client, heap, writer>>

\* The description keys and values callers try.
DescKeys == 1 .. 2

DescValues == 1 .. MaxTagId

\* The calls on one attribute set and its registries within one millisecond:
\* the clock does not advance here (Spec covers last_update over time), and
\* the registries are sent at version 1.
NextAttr ==
    \/ \E data \in RegistryTagLists : TagsOnDataReceived(data, 1)
    \/ \E data \in RegistryDescriptionStructures :
           DescriptionsOnDataReceived(data, 1)
    \/ \E data \in AttributePayloads, version \in Versions :
           OnDataReceived(data, version)
    \/ \E t \in TagIds : AddTag(t)
    \/ \E o \in TagIds, n \in TagIds : ChangeTag(o, n)
    \/ \E t \in TagIds : DeleteTag(t)
    \/ \E k \in DescKeys, v \in DescValues : AddDescription(k, v)
    \/ \E k \in DescKeys, v \in DescValues : ChangeDescription(k, v)
    \/ \E k \in DescKeys : DeleteDescription(k)

SpecAttr == InitAttr /\ [][NextAttr]_vars

\* --------------------------------------------------------- the registries
\* What a server may send for Texts: no language, or English texts of tag 1.
TextsPayloads == {<<>>, [l \in {"en"} |-> [k \in {"#1"} |-> "one"]]}

\* The alternative to TextsOnDataReceived: the timestamp and the version are
\* attributes of the one base class, which every singleton reads.
TextsOnDataReceived_SharedBase(data, version) ==
    /\ Texts' = Texts_on_data_received(Texts, data, version)
    /\ Tags' = [Tags EXCEPT !.last_update = now, !.version = version]
    /\ Descriptions' = [Descriptions EXCEPT !.last_update = now,
                                            !.version = version]
    /\ CurrentUser' = [CurrentUser EXCEPT !.last_update = now,
                                          !.version = version]
    /\ UNCHANGED <<clock, ent, Client, heap, writer, last>>

\* Texts.on_data_received(data, version)
TextsOnDataReceived(data, version) ==
    /\ Texts' = Texts_on_data_received(Texts, data, version)
    /\ UNCHANGED <<clock, ent, Tags, Descriptions, CurrentUser,
                   Client, heap, writer, last>>

\* Tags.get(tag_id)
TagsGet(tag_id) ==
    /\ LET r == Tags_get(Tags, tag_id)
       IN  last' = [op |-> "Tags.get", err |-> r.err,
                    ret |-> Returned("str", r.val, FALSE)]
    /\ UNCHANGED <<clock, ent, Tags, Descriptions, CurrentUser, Texts,
                   Client, heap, writer>>

\* Descriptions.get(key, value)
DescriptionsGet(key, value) ==
    /\ LET r == Descriptions_get(Descriptions, key, value)
       IN  last' = [op |-> "Descriptions.get", err |-> r.err,
                    ret |-> Returned("dict", r.val, FALSE)]
    /\ UNCHANGED <<clock, ent, Tags, Descriptions, CurrentUser, Texts,
                   Client, heap, writer>>

\* The registries alone: their snapshots (sent at version 1) in any order and
\* at any time, and the lookups.
NextReg ==
    \/ Tick
    \/ \E data \in RegistryTagLists : TagsOnDataReceived(data, 1)
    \/ \E data \in RegistryDescriptionStructures :
           DescriptionsOnDataReceived(data, 1)
    \/ \E data \in TextsPayloads : TextsOnDataReceived(data, 1)
    \/ \E t \in TagIds : TagsGet(t)
    \/ \E k \in DescKeys, v \in DescValues : DescriptionsGet(k, v)

SpecReg == InitAttr /\ [][NextReg]_vars

\* ------------------------------------------------------- the text lookup
\* The languages of the text catalogs ('en' is the default one) and the keys.
Languages == {"en", "hu"}
TextKeys == {"hello"}

\* What one language of a catalog may hold: nothing, or the text of a key.
LanguageTexts(l) == {<<>>} \cup {[k \in {key} |-> l \o ":" \o key] :
                                   key \in TextKeys}

\* The catalogs a server may send: any subset of the languages, each with or
\* without the text of a key.
TextCatalogs ==
    UNION {{c \in [ls -> UNION {LanguageTexts(l) : l \in Languages}] :
              \A l \in ls : c[l] \in LanguageTexts(l)} :
           ls \in SUBSET Languages}

\* Texts.get(key, language)
TextsGet(key, language) ==
    /\ last' = [op |-> "Texts.get", err |-> "ok",
                ret |-> Returned("str", Texts_get(Texts, key, language),
                                 FALSE)]
    /\ UNCHANGED <<clock, ent, Tags, Descriptions, CurrentUser, Texts,
                   Client, heap, writer>>

\* Texts.exists(key, language, strict)
TextsExists(key, language, strict) ==
    /\ last' = [op |-> "Texts.exists", err |-> "ok",
                ret |-> Returned("bool",
                                 Texts_exists(Texts, key, language, strict),
                                 FALSE)]
    /\ UNCHANGED <<clock, ent, Tags, Descriptions, CurrentUser, Texts,
                   Client, heap, writer>>

\* Texts.set_default_value(new_value)
TextsSetDefaultValue(new_value) ==
    /\ Texts' = Texts_set_default_value(Texts, new_value)
    /\ UNCHANGED <<clock, ent, Tags, Descriptions, CurrentUser,
                   Client, heap, writer, last>>

\* Texts.set_language(new_value)
TextsSetLanguage(new_value) ==
    /\ Texts' = Texts_set_language(Texts, new_value)
    /\ UNCHANGED <<clock, ent, Tags, Descriptions, CurrentUser,
                   Client, heap, writer, last>>

\* The text registry: its snapshots, its settings and its lookups.
NextTexts ==
    \/ \E data \in TextCatalogs : TextsOnDataReceived(data, 1)
    \/ \E key \in TextKeys \cup {"absent"}, language \in Languages \cup {""} :
           TextsGet(key, language)
    \/ \E key \in TextKeys \cup {"absent"}, language \in Languages \cup {""},
          strict \in BOOLEAN :
           TextsExists(key, language, strict)
    \/ \E new_value \in {"", "?"} : TextsSetDefaultValue(new_value)
    \/ \E new_value \in Languages : TextsSetLanguage(new_value)

SpecTexts == InitAttr /\ [][NextTexts]_vars

\* ------------------------------------------------------------ the client
\* The arguments of the sending calls; contents are bytes, written as strings.
PackageIds == {"P1", "P2"}
Operations == {"createLog", "getLog"}
PackageContents == {"b1", "b2"}

\* Client.send(package_id, operation, content)
Send(package_id, operation, content) ==
    /\ LET r == Client_send(Client, heap, package_id, operation, content)
       IN  /\ Client' = r.cls
           /\ heap' = r.heap
           /\ last' = [op |-> "send", err |-> "ok", ret |-> r.ret]
    /\ UNCHANGED <<clock, ent, Tags, Descriptions, CurrentUser, Texts,
                   writer>>

\* Client.send_and_check(package_id, operation, content)
SendAndCheck(package_id, operation, content) ==
    /\ LET r == Client_send_and_check(Client, heap, package_id, operation,
                                      content)
       IN  /\ Client' = r.cls
           /\ heap' = r.heap
           /\ last' = [op |-> "send_and_check", err |-> "ok", ret |-> r.ret]
    /\ UNCHANGED <<clock, ent, Tags, Descriptions, CurrentUser, Texts,
                   writer>>

\* Client.send_and_wait(package_id, operation, content, operation_to_watch)
SendAndWait(package_id, operation, content, operation_to_watch) ==
    /\ LET r == Client_send_and_wait(Client, heap, package_id, operation,
                                     content, operation_to_watch)
       IN  /\ Client' = r.cls
           /\ heap' = r.heap
           /\ last' = [op |-> "send_and_wait", err |-> "ok", ret |-> r.ret]
    /\ UNCHANGED <<clock, ent, Tags, Descriptions, CurrentUser, Texts,
                   writer>>

\* Client.start()
Start ==
    /\ Client' = Client_start(Client)
    /\ last' = [op |-> "start", err |-> "ok",
                ret |-> Returned("None", <<>>, FALSE)]
    /\ UNCHANGED <<clock, ent, Tags, Descriptions, CurrentUser, Texts,
                   heap, writer>>

\* Client.stop()
Stop ==
    /\ Client' = Client_stop(Client)
    /\ last' = [op |-> "stop", err |-> "ok",
                ret |-> Returned("None", <<>>, FALSE)]
    /\ UNCHANGED <<clock, ent, Tags, Descriptions, CurrentUser, Texts,
                   heap, writer>>

\* The client with nothing draining its queue: the calls in any order, up to
\* MaxQueue sends.
NextNet ==
    \/ \E package_id \in PackageIds, operation \in Operations,
          content \in PackageContents :
           \/ /\ Len(Client.package_queue) < MaxQueue
              /\ Send(package_id, operation, content)
           \/ SendAndCheck(package_id, operation, content)
           \/ \E operation_to_watch \in Operations :
                  SendAndWait(package_id, operation, content,
                              operation_to_watch)
    \/ Start
    \/ Stop

SpecNet == InitAttr /\ [][NextNet]_vars

\* The client whose callers never stop calling: some call of the client is
\* always made again. The class starts no thread of its own.
SpecNetFair == InitAttr /\ [][NextNet]_vars /\ WF_vars(NextNet)

\* A producer that repeats one call of each kind, up to MaxSends sends, with
\* nothing draining the queue.
NextQueue ==
    \/ /\ Len(Client.package_queue) < MaxSends
       /\ Send("P1", "createLog", "b1")
    \/ SendAndCheck("P1", "createLog", "b1")
    \/ SendAndWait("P1", "createLog", "b1", "createLog")

SpecQueue == InitAttr /\ [][NextQueue]_vars

\* ----------------------------------------------------- the switch panels
\* The switches of a binary panel: 1, 2, 4 (the permission types) and the
\* powers of two after them, MaxSwitches in all.
RECURSIVE PowerOfTwo(_)
PowerOfTwo(n) == IF n = 0 THEN 1 ELSE 2 * PowerOfTwo(n - 1)

Switches == {PowerOfTwo(n) : n \in 0 .. MaxSwitches - 1}

\* The panel that has the switches of set S on: their sum.
RECURSIVE PanelOf(_)
PanelOf(S) ==
    IF S = {} THEN NO_PERMISSION
    ELSE LET s == CHOOSE x \in S : TRUE IN s + PanelOf(S \ {s})

\* check_switch(panel, switch) on the panel of the grants.
CheckSwitch(grants, switch) ==
    /\ last' = [op |-> "check_switch", err |-> "ok", grants |-> grants,
                panel |-> PanelOf(grants), switch |-> switch,
                ret |-> Returned("bool",
                                 check_switch(PanelOf(grants), switch),
                                 FALSE)]
    /\ UNCHANGED <<clock, ent, Tags, Descriptions, CurrentUser, Texts,
                   Client, heap, writer>>

NextSwitch ==
    \E grants \in SUBSET Switches, switch \in Switches :
        CheckSwitch(grants, switch)

SpecSwitch == InitAttr /\ [][NextSwitch]_vars

\* ------------------------------------- a registry writer and its readers
\* The registries a server sends snapshots of.
Registries == {"Tags", "Descriptions", "Texts"}

\* The catalog the server sends for registry reg at version v.
CatalogAt(reg, v) ==
    IF v = 0 THEN <<>>
    ELSE CASE reg = "Tags" -> [i \in 1 .. v |-> i]
           [] reg = "Descriptions" -> [k \in {1} |-> [i \in 1 .. v |-> i]]
           [] reg = "Texts" -> [l \in {"en"} |-> [k \in {"#1"} |-> ToString(v)]]

\* The writer thread enters reg.on_data_received(data, version).
BeginSnapshot(reg, data, version) ==
    /\ writer.pc = "idle"
    /\ writer' = [pc |-> "last_update", reg |-> reg, data |-> data,
                  version |-> version]
    /\ UNCHANGED <<clock, ent, Tags, Descriptions, CurrentUser, Texts,
                   Client, heap, last>>

\* The writer executes cls.__last_update = now()
WriterSetsLastUpdate ==
    /\ writer.pc = "last_update"
    /\ Tags' = IF writer.reg = "Tags"
               THEN [Tags EXCEPT !.last_update = now] ELSE Tags
    /\ Descriptions' = IF writer.reg = "Descriptions"
                       THEN [Descriptions EXCEPT !.last_update = now]
                       ELSE Descriptions
    /\ Texts' = IF writer.reg = "Texts"
                THEN [Texts EXCEPT !.last_update = now] ELSE Texts
    /\ writer' = [writer EXCEPT !.pc = "version"]
    /\ UNCHANGED <<clock, ent, CurrentUser, Client, heap, last>>

\* The writer executes cls.__version = version
WriterSetsVersion ==
    /\ writer.pc = "version"
    /\ Tags' = IF writer.reg = "Tags"
               THEN [Tags EXCEPT !.version = writer.version] ELSE Tags
    /\ Descriptions' = IF writer.reg = "Descriptions"
                       THEN [Descriptions EXCEPT !.version = writer.version]
                       ELSE Descriptions
    /\ Texts' = IF writer.reg = "Texts"
                THEN [Texts EXCEPT !.version = writer.version] ELSE Texts
    /\ writer' = [writer EXCEPT !.pc = "catalog"]
    /\ UNCHANGED <<clock, ent, CurrentUser, Client, heap, last>>

\* The writer, back from super().on_data_received, assigns the copy of data
\* to the catalog attribute and returns.
WriterSetsCatalog ==
    /\ writer.pc = "catalog"
    /\ Tags' = IF writer.reg = "Tags"
               THEN [Tags EXCEPT !.tag_ids = writer.data] ELSE Tags
    /\ Descriptions' =
           IF writer.reg = "Descriptions"
           THEN [Descriptions EXCEPT !.description_structure = writer.data]
           ELSE Descriptions
    /\ Texts' = IF writer.reg = "Texts"
                THEN [Texts EXCEPT !.content = writer.data] ELSE Texts
    /\ writer' = writer_init
    /\ UNCHANGED <<clock, ent, CurrentUser, Client, heap, last>>

\* A reader thread takes the version, the timestamp and the catalog of reg as
\* they are at one instant (get_version, get_last_update and the lookups).
ReadRegistry(reg) ==
    /\ LET cls == CASE reg = "Tags" -> Tags
                    [] reg = "Descriptions" -> Descriptions
                    [] reg = "Texts" -> Texts
           cat == CASE reg = "Tags" -> Tags.tag_ids
                    [] reg = "Descriptions" ->
                           Descriptions.description_structure
                    [] reg = "Texts" -> Texts.content
       IN  last' = [op |-> "read", err |-> "ok", reg |-> reg,
                    version |-> cls.version,
                    last_update |-> cls.last_update, catalog |-> cat]
    /\ UNCHANGED <<clock, ent, Tags, Descriptions, CurrentUser, Texts,
                   Client, heap, writer>>

\* One writer thread and the readers, scheduled statement by statement.
NextThreads ==
    \/ \E reg \in Registries, version \in 1 .. MaxVersion :
           BeginSnapshot(reg, CatalogAt(reg, version), version)
    \/ WriterSetsLastUpdate
    \/ WriterSetsVersion
    \/ WriterSetsCatalog
    \/ \E reg \in Registries : ReadRegistry(reg)

SpecThreads == InitAttr /\ [][NextThreads]_vars

\* ------------------------------------------ a log entry and its editors
\* ent.is_changed
IsChanged ==
    /\ ent.cls = "LogosLogEntry"
    /\ LET r == LogosLogEntry_is_changed(ent)
       IN  last' = [op |-> "is_changed", err |-> r.err,
                    ret |-> Returned("bool", r.val, FALSE)]
    /\ UNCHANGED <<clock, ent, Tags, Descriptions, CurrentUser, Texts,
                   Client, heap, writer>>

\* ent.to_json_dict()
ToJsonDict ==
    /\ ent.cls = "LogosLogEntry"
    /\ LET r == LogosLogEntry_to_json_dict(ent)
       IN  last' = [op |-> "to_json_dict", err |-> r.err,
                    ret |-> Returned("dict", r.val, FALSE)]
    /\ UNCHANGED <<clock, ent, Tags, Descriptions, CurrentUser, Texts,
                   Client, heap, writer>>

\* A log entry that is edited, created, given snapshots and read.
NextEdit ==
    \/ \E data \in LogEntryPayloads : OnDataReceived(data, 1)
    \/ \E c \in Contents : SetContent(c)
    \/ OnCreate
    \/ \E t \in TagIds : EntryAddTag(t)
    \/ IsChanged
    \/ ToJsonDict

SpecEdit == InitEntry /\ [][NextEdit]_vars

\* ------------------------------------------------- the four singletons
\* Tags, Descriptions, Texts and CurrentUser receive snapshots in any order,
\* at any time and at any version from 1.
NextSingletons ==
    \/ Tick
    \/ \E version \in 1 .. MaxVersion :
           \/ TagsOnDataReceived(CatalogAt("Tags", version), version)
           \/ DescriptionsOnDataReceived(CatalogAt("Descriptions", version),
                                         version)
           \/ TextsOnDataReceived(CatalogAt("Texts", version), version)
           \/ \E data \in CurrentUserPayloads :
                  CurrentUserOnDataReceived(data, version)

SpecSingletons == InitAttr /\ [][NextSingletons]_vars

\* ------------------------------------------------------------ the claims
\* The classes that extend LogosLocallyCangeable.
LocallyEditable == {"LogosLogEntry", "LogosEditableAttributes"}

\* A payload that is a mapping holding every field class c requires.
ValidPayload(c, data) ==
    data.kind = "dict" /\ RequiredKeys(c) \subseteq DOMAIN data.f

\* The step is a call of ent.on_data_received.
IsOnDataReceived ==
    \E data \in PayloadsFor(ent.cls), version \in Versions :
        OnDataReceived(data, version)

\* C1: on_data_received with a payload that is no mapping or lacks a required
\* field ends in a Serialization error and leaves every field of the entity
\* as it was.
C1_InvalidSnapshotIsAtomic ==
    [][\A data \in PayloadsFor(ent.cls), version \in Versions :
           (~ValidPayload(ent.cls, data) /\ OnDataReceived(data, version))
               => (last'.err = "LogosSerializationError" /\ ent' = ent)]_vars

C3_VersionNeverDecreases ==
    [][/\ ent'.version >= ent.version
       /\ Tags'.version >= Tags.version
       /\ Descriptions'.version >= Descriptions.version
       /\ CurrentUser'.version >= CurrentUser.version]_vars

IsMutator ==
    \/ \E t \in TagIds : AddTag(t)
    \/ \E o \in TagIds, n \in TagIds : ChangeTag(o, n)
    \/ \E t \in TagIds : DeleteTag(t)
    \/ \E k \in DescKeys, v \in DescValues : AddDescription(k, v)
    \/ \E k \in DescKeys, v \in DescValues : ChangeDescription(k, v)
    \/ \E k \in DescKeys : DeleteDescription(k)

\* C7: add_tag(id) ends in ValueError when id is already held, in a
\* Permission error when id is not available in Tags, and otherwise without
\* error, with id appended to the tags and the dirty flag set.
C7_AddTag ==
    [][\A t \in TagIds :
           AddTag(t) =>
               IF InList(t, ent.tags) THEN last'.err = "ValueError"
               ELSE IF ~Tags_available(Tags, t)
               THEN last'.err = "LogosPermissionError"
               ELSE /\ last'.err = "ok"
                    /\ ent'.tags = Append(ent.tags, t)
                    /\ ent'.is_changed]_vars

\* C8: a mutator that ends in an error leaves tags, descriptions, dirty flag
\* and last_update as they were; one that changes tags or descriptions ends
\* without error and with the dirty flag set.
C8_MutatorsAllOrNothing ==
    [][IsMutator =>
           /\ last'.err # "ok" => ent' = ent
           /\ (ent'.tags # ent.tags \/ ent'.descriptions # ent.descriptions)
                  => (last'.err = "ok" /\ ent'.is_changed)]_vars

\* C9: change_tag(old, new) ends in ValueError and changes nothing when old
\* is not held, in a Permission error when old is held and new is not
\* available, and otherwise replaces exactly the entry holding old by new and
\* sets the dirty flag.
C9_ChangeTag ==
    [][\A o \in TagIds, n \in TagIds :
           ChangeTag(o, n) =>
               IF ~InList(o, ent.tags)
               THEN last'.err = "ValueError" /\ ent' = ent
               ELSE IF ~Tags_available(Tags, n)
               THEN last'.err = "LogosPermissionError"
               ELSE /\ last'.err = "ok"
                    /\ \E i \in DOMAIN ent.tags :
                           /\ ent.tags[i] = o
                           /\ ent'.tags = [ent.tags EXCEPT ![i] = n]
                    /\ ent'.is_changed]_vars

\* C10: delete_tag(id) ends in ValueError when id is not held; otherwise id
\* is gone, the other tags keep their order and the dirty flag is set,
\* whether or not id is registered in Tags.
C10_DeleteTag ==
    [][\A t \in TagIds :
           DeleteTag(t) =>
               IF ~InList(t, ent.tags) THEN last'.err = "ValueError"
               ELSE /\ last'.err = "ok"
                    /\ ent'.tags = SelectSeq(ent.tags, LAMBDA x : x # t)
                    /\ ent'.is_changed]_vars

\* C11: add_description(key, value) and change_description(key, value) end
\* in a Permission error when key is not a registered description key or
\* value is not legal for it, add on a held key and change or delete on a key
\* not held end in ValueError (the validation error), and every other call
\* ends without error with descriptions[key] = value (key removed for
\* delete), the other descriptions kept and the dirty flag set.
C11_DescriptionMutators ==
    [][LET legal(k, v) ==
               /\ Descriptions_available_key(Descriptions, k)
               /\ InList(v, Descriptions.description_structure[k])
           held(k) == k \in DOMAIN ent.descriptions
           stored(k, v) ==
               /\ last'.err = "ok"
               /\ ent'.descriptions = DictSet(ent.descriptions, k, v)
               /\ ent'.is_changed
       IN  /\ \A k \in DescKeys, v \in DescValues :
                  AddDescription(k, v) =>
                      IF held(k) /\ legal(k, v)
                      THEN last'.err = "ValueError"
                      ELSE IF ~held(k) /\ ~legal(k, v)
                      THEN last'.err = "LogosPermissionError"
                      ELSE IF held(k)
                      THEN last'.err \in {"ValueError", "LogosPermissionError"}
                      ELSE stored(k, v)
           /\ \A k \in DescKeys, v \in DescValues :
                  ChangeDescription(k, v) =>
                      IF ~held(k) /\ legal(k, v)
                      THEN last'.err = "ValueError"
                      ELSE IF held(k) /\ ~legal(k, v)
                      THEN last'.err = "LogosPermissionError"
                      ELSE IF ~held(k)
                      THEN last'.err \in {"ValueError", "LogosPermissionError"}
                      ELSE stored(k, v)
           /\ \A k \in DescKeys :
                  DeleteDescription(k) =>
                      IF ~held(k) THEN last'.err = "ValueError"
                      ELSE /\ last'.err = "ok"
                           /\ ent'.descriptions =
                                  [j \in (DOMAIN ent.descriptions) \ {k} |->
                                       ent.descriptions[j]]
                           /\ ent'.is_changed]_vars

\* C12: in every reachable state every tag the attribute set holds is
\* available in Tags, and every description it holds has a registered key and
\* a value legal for that key.
C12_HeldAttributesAreRegistered ==
    /\ \A i \in DOMAIN ent.tags : Tags_available(Tags, ent.tags[i])
    /\ \A k \in DOMAIN ent.descriptions :
           /\ Descriptions_available_key(Descriptions, k)
           /\ InList(ent.descriptions[k],
                     Descriptions.description_structure[k])

\* C13: the tags and descriptions accessors of both attribute classes return
\* a container (a list, a dict) whose content equals the tags, the
\* descriptions the entity holds, and which is not the entity's own
\* container, so that a write to it changes nothing in the entity; the access
\* itself leaves the entity as it was.
C13_AccessorsReturnCopies ==
    [][/\ GetTags => /\ last'.ret.kind = "list"
                     /\ last'.ret.val = ent.tags
                     /\ ~last'.ret.aliased
                     /\ ent' = ent
       /\ GetDescriptions => /\ last'.ret.kind = "dict"
                             /\ last'.ret.val = ent.descriptions
                             /\ ~last'.ret.aliased
                             /\ ent' = ent]_vars

\* C14: on_create() on an entry that is not ready completes without error and
\* leaves it ready, so that it completes at most once; on a ready entry it
\* ends in a Status error and leaves id_time, id_user and access_mode as they
\* were.
C14_OnCreateOnce ==
    [][OnCreate =>
           IF ~is_ready(ent)
           THEN last'.err = "ok" /\ is_ready(ent')
           ELSE /\ last'.err = "LogosStatusError"
                /\ ent'.id_time = ent.id_time
                /\ ent'.id_user = ent.id_user
                /\ ent'.access_mode = ent.access_mode]_vars

\* C15: on_create() on a fresh entry at time T with current user U completes
\* and leaves id_time = T, id_user = U, id = "T-U", access_mode = READ + WRITE
\* and the entry ready, and U is the id the last CurrentUser snapshot
\* delivered.
C15_OnCreatePostcondition ==
    /\ [][(OnCreate /\ ~is_ready(ent)) =>
              /\ last'.err = "ok"
              /\ LogosLogEntry_id_tine(ent') = now
              /\ LogosLogEntry_id_user(ent') = CurrentUser_get_id
              /\ LogosLogEntry_id(ent')
                     = ToString(now) \o "-" \o CurrentUser_get_id
              /\ ent'.access_mode = READ + WRITE
              /\ is_ready(ent')]_vars
    /\ [][\A data \in CurrentUserPayloads :
              (/\ data.kind = "dict"
               /\ "terminal_settings" \in DOMAIN data.f
               /\ CurrentUserOnDataReceived(data, 1))
                  => CurrentUser'.id = data.f.id]_vars

\* C16: once id_time and id_user of a log entry are assigned (they differ
\* from the 0 and '' of the constructor), no step changes id_time, id_user
\* or id.
C16_IdentityIsPermanent ==
    [][(/\ ent.cls = "LogosLogEntry"
        /\ (ent.id_time # 0 \/ ent.id_user # ""))
           => /\ ent'.id_time = ent.id_time
              /\ ent'.id_user = ent.id_user
              /\ LogosLogEntry_id(ent') = LogosLogEntry_id(ent)]_vars

\* The step is a write to the container channel.logs.
IsLogsWrite ==
    \/ \E k \in LogKeys : LogsSetItem(k)
    \/ \E k \in LogKeys : LogsUpdate(k)
    \/ \E k \in LogKeys : LogsSetDefault(k)
    \/ \E k \in LogKeys : LogsDelItem(k)
    \/ \E k \in LogKeys : LogsPop(k)
    \/ LogsClear

\* C17: a LogosLogContainer built from a dict of logs holds one entry per key
\* of that dict, and every write to a container after its construction (key
\* assignment, update, setdefault, deletion, pop, clear) ends in a Permission
\* error and leaves the container as it was.
C17_ContainerIsImmutable ==
    /\ [](\A logs \in LogsPayloads :
              logs.kind = "dict" =>
                  /\ LogosLogContainer_init(logs).err = "ok"
                  /\ DOMAIN LogosLogContainer_init(logs).obj.items
                         = DOMAIN logs.f)
    /\ [][IsLogsWrite => /\ last'.err = "LogosPermissionError"
                         /\ ent'.logs = ent.logs]_vars

\* C18: a valid snapshot applied to a channel ends without error and leaves
\* channel.logs with exactly the keys of the snapshot's logs, whatever the
\* container held before: the container is built anew from the snapshot.
C18_SnapshotReplacesLogs ==
    [][\A data \in ChannelPayloads, version \in Versions :
           (/\ ValidPayload("LogosChannel", data)
            /\ data.f.logs.kind = "dict"
            /\ LogosAttributes_init(data.f.attributes, 0).err = "ok"
            /\ OnDataReceived(data, version))
               => /\ last'.err = "ok"
                  /\ DOMAIN ent'.logs.items = DOMAIN data.f.logs.f
                  /\ ent'.logs = LogosLogContainer_init(data.f.logs).obj]_vars

\* C19: Tags.get(id) ends in a Permission error exactly when id is not
\* available in Tags, and Descriptions.get(key, value) exactly when key is no
\* registered description key or value is not legal for it; every other call
\* returns the text.
C19_GetFailsIffUnavailable ==
    [][/\ \A t \in TagIds :
              TagsGet(t) =>
                  IF Tags_available(Tags, t) THEN last'.err = "ok"
                  ELSE last'.err = "LogosPermissionError"
       /\ \A k \in DescKeys, v \in DescValues :
              DescriptionsGet(k, v) =>
                  IF /\ Descriptions_available_key(Descriptions, k)
                     /\ InList(v, Descriptions.description_structure[k])
                  THEN last'.err = "ok"
                  ELSE last'.err = "LogosPermissionError"]_vars

\* C20: Descriptions.is_ready() is true exactly when Descriptions has received
\* a snapshot (its version is then above 0) and Tags.is_ready() is true, in
\* whatever order the snapshots arrived; Descriptions is never ready while
\* Tags is not.
C20_DescriptionsReadiness ==
    /\ Descriptions_is_ready(Descriptions)
           <=> (Descriptions.version > 0 /\ Tags_is_ready(Tags))
    /\ Descriptions_is_ready(Descriptions) => Tags_is_ready(Tags)
    /\ (Descriptions.version > 0 /\ Tags.version > 0 /\ Texts.version > 0)
           => Descriptions_is_ready(Descriptions)

\* C20 witness: Descriptions ready although its snapshot arrived first, that
\* of Tags later and that of Texts last.
C20_Witness ==
    /\ Descriptions_is_ready(Descriptions)
    /\ Descriptions.last_update < Tags.last_update
    /\ Tags.last_update < Texts.last_update

\* C21: with one writer applying registry snapshots and readers running
\* beside it, what a reader sees is never torn: the catalog it sees is the
\* one sent with the version it sees, and a registry whose timestamp shows a
\* snapshot shows that snapshot's version.
C21_NoTornRegistryRead ==
    last.op = "read" =>
        /\ last.catalog = CatalogAt(last.reg, last.version)
        /\ last.last_update > 0 => last.version > 0

\* C22: Texts.get(key, language) returns the text of key in the requested
\* language (the session language for the empty argument) when that language
\* has the key; otherwise the text of key in 'en' when 'en' has it, also when
\* the requested language is in the catalog without the key; and the default
\* value only when neither has the key.
C22_PermissiveFallback ==
    [][\A key \in TextKeys \cup {"absent"}, language \in Languages \cup {""} :
         TextsGet(key, language) =>
             LET lang == IF language = "" THEN Texts.language ELSE language
                 Has(l) == /\ l \in DOMAIN Texts.content
                           /\ key \in DOMAIN Texts.content[l]
             IN  last'.ret.val =
                     IF Has(lang) THEN Texts.content[lang][key]
                     ELSE IF Has("en") THEN Texts.content["en"][key]
                     ELSE Texts.default_value]_vars

\* C23: with nothing draining it, the outbound queue never holds more than
\* 100 packages, whatever send, send_and_check and send_and_wait calls were
\* made.
C23_QueueIsBounded == Len(Client.package_queue) <= 100

\* C24: send appends exactly one envelope to the outbound queue: a new object
\* with PackageType 'Logos', PackageVersion [0, 0, 1, 'dev'] and the three
\* arguments as PackageID, Operation and Content. It returns None at once,
\* leaves the response and operation tables as they are, and alters none of
\* the envelopes already in the queue.
C24_SendEnqueuesEnvelope ==
    [][\A package_id \in PackageIds, operation \in Operations,
          content \in PackageContents :
         Send(package_id, operation, content) =>
             LET q == Client.package_queue
                 q2 == Client'.package_queue
             IN  /\ Len(q2) = Len(q) + 1
                 /\ SubSeq(q2, 1, Len(q)) = q
                 /\ \A i \in 1 .. Len(q) : q2[Len(q2)] # q[i]
                 /\ heap'[q2[Len(q2)]] =
                        [PackageType |-> "Logos",
                         PackageVersion |-> <<0, 0, 1, "dev">>,
                         PackageID |-> package_id, Operation |-> operation,
                         Content |-> content]
                 /\ \A i \in 1 .. Len(q) : heap'[q[i]] = heap[q[i]]
                 /\ Client'.responses = Client.responses
                 /\ Client'.operation_lists = Client.operation_lists
                 /\ last'.err = "ok" /\ last'.ret.kind = "None"]_vars

\* C24 witness: two sends with different arguments have returned and both
\* envelopes are in the queue.
C24_Witness ==
    /\ last.op = "send"
    /\ Len(Client.package_queue) >= 2
    /\ heap[Client.package_queue[1]].PackageID
           # heap[Client.package_queue[2]].PackageID
    /\ heap[Client.package_queue[1]].Content
           # heap[Client.package_queue[2]].Content

\* C25: send_and_check puts the request in the outbound queue and ends with a
\* boolean.
C25_SendAndCheckReturnsBool ==
    [][\A package_id \in PackageIds, operation \in Operations,
          content \in PackageContents :
         SendAndCheck(package_id, operation, content) =>
             /\ Len(Client'.package_queue) = Len(Client.package_queue) + 1
             /\ last'.ret.kind = "bool"]_vars

\* C26: send_and_wait puts the request in the outbound queue and ends with
\* the content of a response, which is bytes; no response being delivered to
\* the client, it does not end with anything else.
C26_SendAndWaitReturnsContent ==
    [][\A package_id \in PackageIds, operation \in Operations,
          content \in PackageContents, operation_to_watch \in Operations :
         SendAndWait(package_id, operation, content, operation_to_watch) =>
             /\ Len(Client'.package_queue) = Len(Client.package_queue) + 1
             /\ last'.ret.kind = "bytes"]_vars

\* A send_and_check, send_and_wait or stop call as one step.
IsCorrelatedCall ==
    \/ \E package_id \in PackageIds, operation \in Operations,
          content \in PackageContents :
           \/ SendAndCheck(package_id, operation, content)
           \/ \E operation_to_watch \in Operations :
                  SendAndWait(package_id, operation, content,
                              operation_to_watch)
    \/ Stop

C28_CheckSwitchTestsGrant ==
    /\ last.op = "check_switch" =>
           (last.ret.val <=> last.switch \in last.grants)
    /\ check_switch(READ + WRITE, READ)
    /\ check_switch(READ + WRITE, WRITE)
    /\ ~check_switch(READ + WRITE, ADMINISTRATE)

\* C28 witness: check_switch has answered for the mode READ + ADMINISTRATE
\* and the grant WRITE, which is not in it.
C28_Witness ==
    /\ last.op = "check_switch"
    /\ last.grants = {READ, ADMINISTRATE}
    /\ last.panel = 5
    /\ last.switch = WRITE
    /\ last.ret.val = FALSE

\* C30: a valid snapshot applied to a log entry leaves every data field of
\* the entry equal to the snapshot's value: id_time, id_user, access_mode,
\* is_finished and content, so that a content set locally before the snapshot
\* is not the entry's content after it.
C30_SnapshotReplacesEntry ==
    [][\A data \in PayloadsFor(ent.cls), version \in Versions :
           (/\ ent.cls = "LogosLogEntry"
            /\ ValidPayload(ent.cls, data)
            /\ "content" \in DOMAIN data.f
            /\ OnDataReceived(data, version))
               => (/\ ent'.id_time = data.f.id_time
                   /\ ent'.id_user = data.f.id_user
                   /\ ent'.access_mode = data.f.access_mode
                   /\ ent'.is_finished = data.f.is_finished
                   /\ ent'.content = data.f.content)]_vars

\* The dirty flag of a part of an entry; a part that is None has none set.
DirtyFlag(part) == part # NoneObj /\ part.is_changed

\* C31: in every state of a log entry, is_changed returns a boolean, the OR
\* of the entry's own dirty flag, its attributes' and its attachments'.
C31_IsChangedIsTheOr ==
    [][IsChanged =>
         /\ last'.err = "ok"
         /\ last'.ret.val = (ent.is_changed \/ DirtyFlag(ent.attributes)
                               \/ DirtyFlag(ent.attachments))]_vars

\* C32: while a log entry's is_finished flag is true, the content setter and
\* the attribute mutators change neither content nor tags nor descriptions
\* and do not set the dirty flag.
C32_FinishedStopsEdits ==
    [][(/\ ent.cls = "LogosLogEntry"
        /\ ent.is_finished
        /\ \/ \E c \in Contents : SetContent(c)
           \/ \E t \in TagIds : EntryAddTag(t))
           => (/\ ent'.content = ent.content
               /\ ent'.attributes = ent.attributes
               /\ ent'.is_changed = ent.is_changed)]_vars

\* C33: Texts.exists(key, language, strict) with strict is true exactly when
\* the given language (the session language for the empty argument) has the
\* key; without strict it is true exactly when that language or 'en' has the
\* key, also when the given language is in the catalog without the key.
C33_ExistsStrictAndPermissive ==
    [][\A key \in TextKeys \cup {"absent"}, language \in Languages \cup {""},
          strict \in BOOLEAN :
         TextsExists(key, language, strict) =>
             LET lang == IF language = "" THEN Texts.language ELSE language
                 Has(l) == /\ l \in DOMAIN Texts.content
                           /\ key \in DOMAIN Texts.content[l]
             IN  last'.ret.val =
                     IF strict THEN Has(lang) ELSE Has(lang) \/ Has("en")]_vars

\* The fields a snapshot of class c must hold, as the specification lists
\* them: those the handlers check, and content for a log entry.
ClaimedKeys(c) ==
    IF c = "LogosLogEntry" THEN RequiredKeys(c) \cup {"content"}
    ELSE RequiredKeys(c)

\* C34: on_data_received ends in a Serialization error exactly when the
\* payload is no mapping or lacks one of the fields required of the entity's
\* class (content among them for a log entry), and accepts every other
\* payload.
C34_SerializationErrorIffInvalid ==
    [][\A data \in PayloadsFor(ent.cls), version \in Versions :
         OnDataReceived(data, version) =>
             LET valid == /\ data.kind = "dict"
                          /\ ClaimedKeys(ent.cls) \subseteq DOMAIN data.f
             IN  /\ valid => last'.err = "ok"
                 /\ ~valid => last'.err = "LogosSerializationError"]_vars

\* C35: on_create succeeds on a log entry that was neither created nor given
\* a snapshot (its version is 0 and its identity time unset), whatever local
\* edits came before; after a content edit it does not end in a Status error.
C35_OnCreateAfterEdits ==
    [][(/\ ent.cls = "LogosLogEntry"
        /\ ent.version = 0
        /\ ent.id_time = 0
        /\ OnCreate)
           => last'.err = "ok"]_vars

\* C36: to_json_dict() of a log entry returns a dict that holds every field
\* on_data_received requires, with the entry's id_time and id_user; a fresh
\* entry that receives it as a snapshot has the id, the access_mode and the
\* is_finished of the original.
C36_SerializationRoundTrip ==
    [][ToJsonDict =>
         /\ last'.err = "ok"
         /\ last'.ret.val.kind = "dict"
         /\ RequiredKeys("LogosLogEntry") \subseteq DOMAIN last'.ret.val.f
         /\ last'.ret.val.f.id_time = ent.id_time
         /\ last'.ret.val.f.id_user = ent.id_user
         /\ LET r == LogosLogEntry_on_data_received(LogosLogEntry_init,
                                                    last'.ret.val, 1)
            IN  /\ r.err = "ok"
                /\ r.obj.id_time = ent.id_time
                /\ r.obj.id_user = ent.id_user
                /\ r.obj.access_mode = ent.access_mode
                /\ r.obj.is_finished = ent.is_finished]_vars

\* A list that holds no value twice.
DuplicateFree(list) ==
    \A i, j \in DOMAIN list : list[i] = list[j] => i = j

\* C37: add_tag, change_tag and delete_tag, called on a tag collection that
\* holds no id twice, leave a collection that holds no id twice.
C37_TagsStayDuplicateFree ==
    [][(/\ DuplicateFree(ent.tags)
        /\ \/ \E t \in TagIds : AddTag(t)
           \/ \E o \in TagIds, n \in TagIds : ChangeTag(o, n)
           \/ \E t \in TagIds : DeleteTag(t))
           => DuplicateFree(ent'.tags)]_vars

\* C38: a snapshot applied to one of Tags, Descriptions, Texts and
\* CurrentUser leaves the other three as they were: their version, their
\* last_update (and with it their own readiness) and their catalog.
C38_SingletonsAreIndependent ==
    [][\A version \in 1 .. MaxVersion :
         /\ TagsOnDataReceived(CatalogAt("Tags", version), version)
                => (/\ Descriptions' = Descriptions
                    /\ Texts' = Texts
                    /\ CurrentUser' = CurrentUser)
         /\ DescriptionsOnDataReceived(CatalogAt("Descriptions", version),
                                       version)
                => (/\ Tags' = Tags
                    /\ Texts' = Texts
                    /\ CurrentUser' = CurrentUser)
         /\ TextsOnDataReceived(CatalogAt("Texts", version), version)
                => (/\ Tags' = Tags
                    /\ Descriptions' = Descriptions
                    /\ CurrentUser' = CurrentUser)
         /\ (\E data \in CurrentUserPayloads :
                 CurrentUserOnDataReceived(data, version))
                => (/\ Tags' = Tags
                    /\ Descriptions' = Descriptions
                    /\ Texts' = Texts)]_vars

\* C38 witness: the four singletons are in four different states: Tags took
\* a snapshot at version 2 after Descriptions took one at version 1 earlier,
\* Texts took one last and CurrentUser none.
C38_Witness ==
    /\ Tags.version = 2 /\ Tags.last_update = 2
    /\ Descriptions.version = 1 /\ Descriptions.last_update = 1
    /\ Singleton_is_ready(Texts) /\ Texts.last_update = 3
    /\ ~Singleton_is_ready(CurrentUser) /\ CurrentUser.version = 0

\* The envelope at heap address a waits in the outbound queue.
InQueue(a) ==
    \E i \in DOMAIN Client.package_queue : Client.package_queue[i] = a

\* C39: every envelope that send put in the outbound queue is taken out of it
\* by the sender.
C39_EveryEnvelopeIsDequeued ==
    \A a \in 1 .. MaxQueue : InQueue(a) ~> ~InQueue(a)

====
